---- MODULE Spec2Model ----
(***************************************************************************)
(* Model of grassfire_algorithm (grassfirealgorigthm.py): the wavefront    *)
(* breadth-first expansion from the destination over a numpy float field   *)
(* (inf = unreached, nan = obstacle), followed by the greedy downhill      *)
(* walk from the start cell.                                               *)
(***************************************************************************)
EXTENDS Integers, Sequences, FiniteSets, TLC

\* ------------------------------------------------------------------ bounds
MaxRows == 3
MaxCols == 2
MaxObstacles == 2
\* the walk is followed for at most (number of cells + MaxExtra) appended cells
MaxExtra == 2

VARIABLES num_rows, num_cols, obstacles, start_point, destination_point,
          field, queue, path, current_pos, pc, result, enqueued

vars == <<num_rows, num_cols, obstacles, start_point, destination_point,
          field, queue, path, current_pos, pc, result, enqueued>>

inputs == <<num_rows, num_cols, obstacles, start_point, destination_point>>

\* ------------------------------------------------------- float field values
\* numpy float64 cells: +inf, nan, or a finite non-negative whole number
Inf == [k |-> "inf", n |-> 0]
NaN == [k |-> "nan", n |-> 0]
Num(x) == [k |-> "num", n |-> x]

isinf(x) == x.k = "inf"
isnan(x) == x.k = "nan"
IsFinite(x) == x.k = "num"

\* IEEE comparisons: every ordered comparison and == with a nan is False
FEq(a, b) == IF isnan(a) \/ isnan(b) THEN FALSE ELSE a = b
FLt(a, b) == IF isnan(a) \/ isnan(b) THEN FALSE
             ELSE IF isinf(a) THEN FALSE
             ELSE IF isinf(b) THEN TRUE
             ELSE a.n < b.n
FGe(a, b) == IF isnan(a) \/ isnan(b) THEN FALSE
             ELSE IF isinf(a) THEN TRUE
             ELSE IF isinf(b) THEN FALSE
             ELSE a.n >= b.n
\* field[row, col] + 1
Plus1(x) == IF IsFinite(x) THEN Num(x.n + 1) ELSE x

\* ------------------------------------------------------------------- grid
Cells(nr, nc) == (0 .. nr - 1) \X (0 .. nc - 1)
Grid == Cells(num_rows, num_cols)

\* the direction list [(-1, 0), (1, 0), (0, -1), (0, 1)]
Dirs == << <<-1, 0>>, <<1, 0>>, <<0, -1>>, <<0, 1>> >>
Step(pos, i) == <<pos[1] + Dirs[i][1], pos[2] + Dirs[i][2]>>
InBounds(p) == 0 <= p[1] /\ p[1] < num_rows /\ 0 <= p[2] /\ p[2] < num_cols

\* ------------------------------------------------------ field initialisation
\* (variant: destination := 0 first, obstacle marking last)
InitialFieldObstaclesLast(obs, dest) ==
    [c \in Grid |-> IF c \in obs THEN NaN
                    ELSE IF c = dest THEN Num(0) ELSE Inf]

\* np.full(inf); obstacles := nan; destination := 0 (in this order)
InitialField(obs, dest) ==
    [c \in Grid |-> IF c = dest THEN Num(0)
                    ELSE IF c \in obs THEN NaN ELSE Inf]

\* ---------------------------------------------------------- expansion step
\* (variant: any cell that is not an obstacle is written and enqueued)
UnreachedNotNan(x) == ~isnan(x)
\* the test guarding the write and the enqueue of a neighbour
Unreached(x) == isinf(x)
\* (variant: queue.pop(), the frontier used as a stack)
PopIndexLast(q) == Len(q)
\* queue.pop(0)
PopIndex(q) == 1

RECURSIVE Visit(_, _, _, _, _)
\* the for loop over the four directions of the popped cell, from direction i
Visit(i, cell, f, q, e) ==
    IF i > Len(Dirs) THEN [f |-> f, q |-> q, e |-> e]
    ELSE LET new == Step(cell, i)
         IN IF InBounds(new) /\ Unreached(f[new])
            THEN Visit(i + 1, cell, [f EXCEPT ![new] = Plus1(f[cell])],
                       Append(q, new), Append(e, new))
            ELSE Visit(i + 1, cell, f, q, e)

RemoveAt(q, i) == [j \in 1 .. Len(q) - 1 |-> IF j < i THEN q[j] ELSE q[j + 1]]

\* ------------------------------------------------------------------- walk
\* the in-bounds neighbours of pos, in direction order
Neighbours(pos) ==
    SelectSeq([i \in 1 .. Len(Dirs) |-> Step(pos, i)], InBounds)

\* key(p) < key(q) for key = (field[pos], -pos[0], -pos[1]), compared as tuples
KeyLt(f, p, q) ==
    IF ~FEq(f[p], f[q]) THEN FLt(f[p], f[q])
    ELSE IF p[1] # q[1] THEN -p[1] < -q[1]
    ELSE -p[2] < -q[2]

RECURSIVE MinFrom(_, _, _, _)
\* Python's min(): keep the first item unless a later one compares smaller
MinFrom(f, s, i, best) ==
    IF i > Len(s) THEN best
    ELSE MinFrom(f, s, i + 1, IF KeyLt(f, s[i], best) THEN s[i] ELSE best)

MinNeighbour(f, pos) == MinFrom(f, Neighbours(pos), 2, Neighbours(pos)[1])

\* (variant: the walk is entered whatever field[start] holds)
StartUsableAlways(x) == TRUE
\* the test that decides whether the walk is entered
StartUsable(x) == ~isinf(x)
\* the test that aborts the walk
NoProgress(new, cur) == FGe(new, cur)

\* (variant: the path returned as built)
ReverseOmitted(s) == s
RECURSIVE Reverse(_)
\* path[::-1]
Reverse(s) == IF s = <<>> THEN <<>> ELSE Append(Reverse(Tail(s)), Head(s))

PathCap == num_rows * num_cols + MaxExtra

\* ------------------------------------------------------------------- Init
Init ==
    /\ num_rows \in 1 .. MaxRows
    /\ num_cols \in 1 .. MaxCols
    /\ obstacles \in {o \in SUBSET Cells(num_rows, num_cols) :
                          Cardinality(o) <= MaxObstacles}
    /\ start_point \in Cells(num_rows, num_cols)
    /\ destination_point \in Cells(num_rows, num_cols)
    /\ field = [c \in Cells(num_rows, num_cols) |-> Inf]
    /\ queue = <<>>
    /\ enqueued = <<>>
    /\ path = <<>>
    /\ current_pos = start_point
    /\ result = <<>>
    /\ pc = "entry"

\* ---------------------------------------------------------------- actions
\* obstacle marking, destination := 0, queue := [destination]
InitField ==
    /\ pc = "entry"
    /\ field' = InitialField(obstacles, destination_point)
    /\ queue' = <<destination_point>>
    /\ enqueued' = <<destination_point>>
    /\ pc' = "bfs"
    /\ UNCHANGED <<inputs, path, current_pos, result>>

\* one iteration of `while queue`
Expand ==
    /\ pc = "bfs"
    /\ queue # <<>>
    /\ LET cell == queue[PopIndex(queue)]
           r == Visit(1, cell, field, RemoveAt(queue, PopIndex(queue)), enqueued)
       IN /\ field' = r.f
          /\ queue' = r.q
          /\ enqueued' = r.e
    /\ UNCHANGED <<inputs, path, current_pos, result, pc>>

\* queue empty, field[start] is inf: the walk is skipped, [] is returned
Unreachable ==
    /\ pc = "bfs"
    /\ queue = <<>>
    /\ ~StartUsable(field[start_point])
    /\ path' = <<>>
    /\ result' = Reverse(path')
    /\ pc' = "done"
    /\ UNCHANGED <<inputs, field, queue, enqueued, current_pos>>

\* queue empty, field[start] is not inf: the walk starts at start_point
StartWalk ==
    /\ pc = "bfs"
    /\ queue = <<>>
    /\ StartUsable(field[start_point])
    /\ path' = <<>>
    /\ current_pos' = start_point
    /\ pc' = "walk"
    /\ UNCHANGED <<inputs, field, queue, enqueued, result>>

\* one iteration of `while current_pos != destination_point`: append the
\* current cell, move to the minimal neighbour, return [] when no progress
WalkStep ==
    /\ pc = "walk"
    /\ current_pos # destination_point
    /\ Len(path) < PathCap
    /\ Neighbours(current_pos) # <<>>
    /\ LET new == MinNeighbour(field, current_pos)
       IN /\ path' = Append(path, current_pos)
          /\ current_pos' = new
          /\ IF NoProgress(field[new], field[current_pos])
             THEN result' = <<>> /\ pc' = "done"
             ELSE UNCHANGED <<result, pc>>
    /\ UNCHANGED <<inputs, field, queue, enqueued>>

\* loop exit: append the destination, return path[::-1]
WalkFinish ==
    /\ pc = "walk"
    /\ current_pos = destination_point
    /\ path' = Append(path, destination_point)
    /\ result' = Reverse(path')
    /\ pc' = "done"
    /\ UNCHANGED <<inputs, field, queue, enqueued, current_pos>>

Next == InitField \/ Expand \/ Unreachable \/ StartWalk
        \/ WalkStep \/ WalkFinish

Spec == Init /\ [][Next]_vars

\* The function runs sequentially to completion: every enabled step is taken.
\* The expansion never reads start_point, so the runs that decide how the
\* expansion ends are taken from one start cell.
ExpansionInit == Init /\ start_point = <<0, 0>>
FairSpec == ExpansionInit /\ [][Next]_vars /\ WF_vars(Next)

\* ---------------------------------------------------------------- reference
\* an independent reading of "reachable" and "shortest step count": the cells
\* within k orthogonal steps of the destination through non-obstacle cells
Abs(x) == IF x < 0 THEN -x ELSE x
Manhattan(a, b) == Abs(a[1] - b[1]) + Abs(a[2] - b[2])
Free == (Grid \ obstacles) \cup {destination_point}

RECURSIVE Layers(_, _, _)
\* d maps each cell to its step count, -1 while not reached; ring is the set
\* of cells at exactly k steps
Layers(d, ring, k) ==
    IF ring = {} THEN d
    ELSE LET marked == [c \in Grid |-> IF c \in ring THEN k ELSE d[c]]
             next == {c \in Free : /\ marked[c] = -1
                                   /\ \E b \in ring : Manhattan(b, c) = 1}
         IN Layers(marked, next, k + 1)

TrueDist == Layers([c \in Grid |-> -1], {destination_point}, 0)
Reach == LET d == TrueDist IN {c \in Grid : d[c] >= 0}

NoDup(s) == \A i, j \in 1 .. Len(s) : i # j => s[i] # s[j]
ExpansionOver == pc \in {"walk", "done"}
Returned == pc = "done"

\* ------------------------------------------------------------------ claims

\* C1: when the breadth-first expansion has finished, every cell reachable
\* from the destination through non-obstacle cells holds its true shortest
\* step count, every unreachable non-obstacle cell still holds inf, and
\* every obstacle cell other than the destination still holds nan.
C1_FieldIsShortestDistance ==
    ExpansionOver =>
        LET d == TrueDist
        IN \A c \in Grid :
              IF d[c] >= 0 THEN field[c] = Num(d[c])
              ELSE IF c \notin obstacles THEN field[c] = Inf
              ELSE field[c] = NaN

C1_Witness ==
    /\ ExpansionOver
    /\ \E c \in Reach : TrueDist[c] >= 2
    /\ \E c \in Grid \ Reach : c \notin obstacles
    /\ \E c \in obstacles : c # destination_point

\* C2: whenever field[start] is non-finite after the expansion (inf or nan),
\* the function returns [] at once, without one step of the walk.
C2_NonFiniteStartReturnsEmpty ==
    (ExpansionOver /\ ~IsFinite(field[start_point])) =>
        (path = <<>> /\ (Returned => result = <<>>))

\* C3: every cell of a returned non-empty path, other than the destination,
\* is a non-obstacle cell: from a non-obstacle start the walk never steps
\* onto an obstacle.
C3_PathAvoidsObstacles ==
    (Returned /\ start_point \notin obstacles) =>
        \A i \in 1 .. Len(result) :
            result[i] \in obstacles => result[i] = destination_point

\* C4: along a returned non-empty path, read from start to destination, the
\* field values strictly decrease down to 0 at the destination and every two
\* consecutive cells are orthogonal neighbours (stated for a non-obstacle
\* start, where field[start] is a number).
C4_PathStrictlyDownhill ==
    (Returned /\ result # <<>> /\ start_point \notin obstacles) =>
        /\ \A i \in 1 .. Len(path) - 1 :
              /\ FLt(field[path[i + 1]], field[path[i]])
              /\ Manhattan(path[i], path[i + 1]) = 1
        /\ field[path[Len(path)]] = Num(0)

\* C5: when an obstacle-free path from start to destination exists, the
\* returned path has exactly field[start] + 1 cells and is a shortest path;
\* with no obstacles it has 1 + |dRow| + |dCol| cells.
C5_PathLengthIsShortest ==
    (Returned /\ start_point \in Reach
        /\ (start_point \notin obstacles \/ start_point = destination_point)) =>
        /\ field[start_point] = Num(Len(result) - 1)
        /\ Len(result) = TrueDist[start_point] + 1
        /\ obstacles = {} =>
              Len(result) = 1 + Manhattan(start_point, destination_point)

\* C6 (as stated): a returned non-empty path starts with the start cell and
\* ends with the destination cell.
C6_StartFirstDestinationLast ==
    (Returned /\ result # <<>>) =>
        /\ result[1] = start_point
        /\ result[Len(result)] = destination_point

\* C6 (amended): a returned non-empty path is in destination-to-start order
\* with both ends included: its first element is the destination cell and
\* its last element is the start cell.
C6_DestinationFirstStartLast ==
    (Returned /\ result # <<>>) =>
        /\ result[1] = destination_point
        /\ result[Len(result)] = start_point

C6_Witness ==
    /\ Returned
    /\ start_point \notin obstacles
    /\ Len(result) >= 3
    /\ result[1] = destination_point
    /\ result[Len(result)] = start_point

\* C7: for a non-obstacle start that no sequence of orthogonal steps through
\* non-obstacle cells connects to the destination, the function returns []
\* while the destination's field value is 0.
C7_CutOffStartReturnsEmpty ==
    (Returned /\ start_point \notin obstacles /\ start_point \notin Reach) =>
        (result = <<>> /\ field[destination_point] = Num(0))

C7_Witness ==
    /\ Returned
    /\ start_point \notin obstacles
    /\ start_point \notin Reach
    /\ \A c \in Grid :
          Manhattan(c, destination_point) = 1 => c \in obstacles
    /\ result = <<>>

\* C8: from the initialisation of the field onward the destination's field
\* value is 0, also when the destination is in the obstacle set; the
\* destination is the first frontier element and, once the expansion is
\* over, its non-obstacle neighbours hold distance 1.
C8_DestinationAlwaysZero ==
    pc # "entry" =>
        /\ field[destination_point] = Num(0)
        /\ enqueued[1] = destination_point
        /\ ExpansionOver =>
              \A c \in Grid \ obstacles :
                  Manhattan(c, destination_point) = 1 => field[c] = Num(1)

C8_Witness ==
    /\ ExpansionOver
    /\ destination_point \in obstacles
    /\ field[destination_point] = Num(0)
    /\ \E c \in Grid \ obstacles :
          Manhattan(c, destination_point) = 1 /\ field[c] = Num(1)

\* C9: the walk always terminates; each move goes to a strictly smaller
\* field value, so no cell is ever appended to the path twice (stated for a
\* non-obstacle start).
C9_WalkNeverRepeatsACell == start_point \notin obstacles => NoDup(path)

\* C10: during the expansion a cell that is blocked or already holds a finite
\* distance is never written again and never enqueued again: each cell enters
\* the frontier at most once, the enqueue count never exceeds
\* numRows * numCols, and the expansion ends with an empty frontier.
C10_ExpansionVisitsOnceAndEnds ==
    /\ [](NoDup(enqueued) /\ Len(enqueued) <= num_rows * num_cols)
    /\ [][\A c \in Grid : ~isinf(field[c]) => field'[c] = field[c]]_vars
    /\ <>(ExpansionOver /\ queue = <<>>)

C10_Witness ==
    /\ ExpansionOver
    /\ queue = <<>>
    /\ obstacles # {}
    /\ Len(enqueued) = num_rows * num_cols - Cardinality(obstacles)
    /\ Len(enqueued) >= 4

====
